---- MODULE Spec2Model ----
(***************************************************************************)
(* Model of the MEXC session ranking bot (src/tmp.py).                     *)
(*                                                                         *)
(* Instants (Python aware datetimes) are integers: seconds since the epoch *)
(* (sub-second parts are not modelled).  Candle timestamps are epoch       *)
(* milliseconds, as ccxt returns them.  Prices are integers (ticks);       *)
(* percentages, which the code computes as floats, are exact fractions     *)
(* <<num, den>> with den > 0, rounded only where the code formats them.    *)
(* An optional value (x or None) is a sequence: <<>> for None, <<x>>.      *)
(***************************************************************************)
EXTENDS Integers, Sequences, FiniteSets, TLC

VARIABLES
    pc,             \* position of the run / of the function under study
    now,            \* now_utc
    win,            \* (start_kst, end_kst) of previous_kst_session_bounds
    base,           \* base_5am_kst
    boundaries,     \* boundaries list of last_n_interval_deltas_30m
    ohlcv,          \* outcome of ex.fetch_ohlcv: [ok, rows], ok FALSE when it raised
    since_ms,       \* since_ms argument of compute_session_performance
    until_ms,       \* until_ms argument of compute_session_performance
    result,         \* return value of compute_session_performance
    idx,            \* cursor of the boundary price scan
    prices,         \* prices list of last_n_interval_deltas_30m
    deltas,         \* return value of last_n_interval_deltas_30m
    n,              \* argument n of last_n_interval_deltas_30m
    valid_syms,     \* main: resolved watch-list symbols, in watch-list order
    feeds,          \* main: per symbol, what the session fetch_ohlcv gives
    tfeeds,         \* main: per symbol, what the trend fetch_ohlcv gives
    results,        \* main: results list
    trend_map,      \* main: trend_map dict
    i,              \* main: loop position in valid_syms
    first_run_style,\* main: first_run_style flag
    day_label,      \* send_ranked_messages: day_label argument, <<day, length>>
    header,         \* send_ranked_messages: header
    ranked,         \* send_ranked_messages: ranked argument
    buf,            \* send_ranked_messages: buf
    lines_in_msg,   \* send_ranked_messages: lines_in_msg
    rank,           \* send_ranked_messages: rank
    sent,           \* texts passed to send_telegram, in order
    lines_cap       \* LINES_PER_MESSAGE of this run

vars == <<pc, now, win, base, boundaries, ohlcv, since_ms, until_ms, result,
          idx, prices, deltas, n, valid_syms, feeds, tfeeds, results,
          trend_map, i, first_run_style, day_label, header, ranked, buf, lines_in_msg,
          rank, sent, lines_cap>>

clockVars == <<now, win, base, boundaries>>
evalVars  == <<ohlcv, since_ms, until_ms, result>>
scanVars  == <<idx, prices, deltas, n>>
mainVars  == <<valid_syms, feeds, tfeeds, results, i>>
sendVars  == <<trend_map, first_run_style, day_label, header, ranked, buf,
               lines_in_msg, rank, sent, lines_cap>>

None == <<>>

Some(x) == <<x>>

(***************************************************************************)
(* Bounds of the model.                                                    *)
(***************************************************************************)
MaxDay     == 2     \* days of instants enumerated
MaxCandles == 3     \* longest candle series enumerated
MaxRanked  == 3     \* longest ranked list handed to send_ranked_messages alone
MaxSyms    == 3     \* longest watch-list of a whole run

(***************************************************************************)
(* Generic helpers.                                                        *)
(***************************************************************************)
Min(a, b) == IF a <= b THEN a ELSE b

Max(a, b) == IF a >= b THEN a ELSE b

Last(s) == s[Len(s)]

\* s[-k:] of Python for k >= 1; Python's s[-0:] is s[0:], the whole list.
Tail_k(s, k) == IF k = 0 \/ k >= Len(s) THEN s ELSE SubSeq(s, Len(s) - k + 1, Len(s))

IsPrefix(s, t) == Len(s) <= Len(t) /\ \A k \in 1..Len(s) : s[k] = t[k]

\* [x for x in s if P(x)]
RECURSIVE SelectIdx(_, _, _)
SelectIdx(s, keep, k) ==
    IF k > Len(s) THEN <<>>
    ELSE (IF k \in keep THEN <<s[k]>> ELSE <<>>) \o SelectIdx(s, keep, k + 1)

(***************************************************************************)
(* 1) Time utilities                                                       *)
(***************************************************************************)
KstHours    == 9
SecPerHour  == 3600
SecPerDay   == 86400
AnchorHour  == 5

\* wall clock of an instant in KST (datetime.astimezone(KST)), as seconds
\* since the KST midnight of epoch day 0
KstClock(t) == t + KstHours * SecPerHour

\* now_kst.replace(hour=5, minute=0, second=0, microsecond=0), as an instant
Today05(t) ==
    (KstClock(t) \div SecPerDay) * SecPerDay + AnchorHour * SecPerHour
        - KstHours * SecPerHour

\* timedelta(days=1, seconds=-1) is 86399 seconds: the else branch ends the
\* window one second AFTER yesterday's 05:00
previous_kst_session_bounds(t) ==
    IF t >= Today05(t)
    THEN [start |-> Today05(t) - SecPerDay, end |-> Today05(t) - 1]
    ELSE [start |-> Today05(t) - 2 * SecPerDay,
          end   |-> Today05(t) - (SecPerDay - 1)]

latest_5am_kst_at_or_before(t) ==
    IF t >= Today05(t) THEN Today05(t) ELSE Today05(t) - SecPerDay

to_ms(t) == t * 1000

(***************************************************************************)
(* 5) boundaries of last_n_interval_deltas_30m                             *)
(***************************************************************************)
StepMin == 30

\* faulty variant: the step count rounded up instead of down
LastStepIndexCeil(b, t) == (((t - b) \div 60) + StepMin - 1) \div StepMin

\* minutes_from_base // 30
last_step_index(b, t) == ((t - b) \div 60) \div StepMin

\* the boundaries list; the function returns before building it when
\* last_step_index < 1, which is the empty list here
Boundaries(b, t) ==
    IF last_step_index(b, t) < 1 THEN <<>>
    ELSE [k \in 1..(last_step_index(b, t) + 1) |-> b + 60 * StepMin * (k - 1)]

(***************************************************************************)
(* Clock specification: the window and boundary arithmetic applied to      *)
(* instants around the 05:00 KST anchor and the 30-minute steps.           *)
(***************************************************************************)
ClockOfDay == {0, 3599, 14400, 17999, 18000, 18001, 18059, 18060, 19799,
               19800, 19801, 21599, 21600, 25200, 43200, 86399}

NowSet == {d * SecPerDay + s - KstHours * SecPerHour :
               d \in 1..MaxDay, s \in ClockOfDay}

\* values of the variables a specification does not use
NoWindow == win = [start |-> 0, end |-> 0] /\ base = 0 /\ boundaries = <<>>

NoEval == ohlcv = [ok |-> TRUE, rows |-> <<>>] /\ since_ms = 0 /\ until_ms = 0 /\ result = None

NoScan == idx = 0 /\ prices = <<>> /\ deltas = <<>> /\ n = 0

NoMain ==
    /\ valid_syms = <<>> /\ feeds = <<>> /\ tfeeds = <<>> /\ results = <<>>
    /\ i = 0

NoSend ==
    /\ trend_map = <<>> /\ first_run_style = FALSE
    /\ day_label = <<0, 0>> /\ header = <<>> /\ ranked = <<>> /\ buf = <<>> /\ lines_in_msg = 0
    /\ rank = 0 /\ sent = <<>> /\ lines_cap = 0

InitClock ==
    /\ pc = "start"
    /\ now \in NowSet
    /\ NoWindow /\ NoEval /\ NoScan /\ NoMain /\ NoSend

SessionBounds ==
    /\ pc = "start"
    /\ win' = previous_kst_session_bounds(now)
    /\ pc' = "bounds"
    /\ UNCHANGED <<now, base, boundaries, evalVars, scanVars, mainVars, sendVars>>

Latest5am ==
    /\ pc = "bounds"
    /\ base' = latest_5am_kst_at_or_before(now)
    /\ pc' = "base"
    /\ UNCHANGED <<now, win, boundaries, evalVars, scanVars, mainVars, sendVars>>

BuildBoundaries ==
    /\ pc = "base"
    /\ boundaries' = Boundaries(base, now)
    /\ pc' = "built"
    /\ UNCHANGED <<now, win, base, evalVars, scanVars, mainVars, sendVars>>

\* the boundary list built again for the same base at another instant
LaterRun ==
    /\ pc = "built"
    /\ \E t \in NowSet :
          /\ t # now
          /\ now' = t
          /\ boundaries' = Boundaries(base, t)
    /\ UNCHANGED <<pc, win, base, evalVars, scanVars, mainVars, sendVars>>

NextClock == SessionBounds \/ Latest5am \/ BuildBoundaries \/ LaterRun

SpecClock == InitClock /\ [][NextClock]_vars

\* C3: for every instant, previous_kst_session_bounds returns a window whose
\* duration end - start is exactly 86399 seconds.
SessionWindowIs86399 ==
    pc # "start" => win.end - win.start = 86399

\* C7: the boundary list never holds a boundary strictly after now, and for a
\* fixed base the list built for an earlier now is a prefix of the list built
\* for a later now.
BoundariesMonotone ==
    /\ [](\A k \in 1..Len(boundaries) : boundaries[k] <= now)
    /\ [][(pc = "built" /\ base' = base /\ now' >= now)
              => IsPrefix(boundaries, boundaries')]_vars

BoundariesWitness ==
    /\ pc = "built"
    /\ Len(boundaries) >= 3
    /\ now > Last(boundaries)
    /\ now - base > SecPerDay

(***************************************************************************)
(* 4) compute_session_performance                                          *)
(* A candle is [ts, high, low, close]; open and volume are never read.     *)
(***************************************************************************)
\* [row for row in ohlcv if since_ms <= row[0] <= until_ms]
RowsInWindow(rows, lo, hi) ==
    SelectIdx(rows, {k \in 1..Len(rows) : lo <= rows[k].ts /\ rows[k].ts <= hi}, 1)

\* min(lows, key=lambda x: x[1]): the first row of least low
MinLowRow(rows) ==
    rows[CHOOSE k \in 1..Len(rows) :
            /\ \A j \in 1..Len(rows) : rows[k].low <= rows[j].low
            /\ \A j \in 1..(k - 1) : rows[j].low > rows[k].low]

\* faulty variant: the high searched over the whole window
AfterLowAll(rows, low_ts) == rows

\* [row for row in rows if row[0] >= low_ts]
AfterLow(rows, low_ts) ==
    SelectIdx(rows, {k \in 1..Len(rows) : rows[k].ts >= low_ts}, 1)

\* max(highs_after_low, key=lambda x: x[1]): the first row of greatest high
MaxHighRow(rows) ==
    rows[CHOOSE k \in 1..Len(rows) :
            /\ \A j \in 1..Len(rows) : rows[k].high >= rows[j].high
            /\ \A j \in 1..(k - 1) : rows[j].high < rows[k].high]

\* pct = 0.0, or (high_price - low_price) / low_price * 100.0
SessionPct(low_price, high_price) ==
    IF low_price > 0 /\ high_price >= low_price
    THEN <<(high_price - low_price) * 100, low_price>>
    ELSE <<0, 1>>

\* faulty variant: the exception of a failed fetch is not caught
FetchErrorEscapes(fetch) == ~fetch.ok

\* try: ex.fetch_ohlcv(...) except Exception: return None -- whether the
\* exception of a failed fetch leaves the function: never, it is caught
FetchErrorPropagates(fetch) == FALSE

compute_session_performance(fetch, symbol, lo, hi) ==
    IF ~fetch.ok THEN None
    ELSE IF fetch.rows = <<>> THEN None
    ELSE LET rows == RowsInWindow(fetch.rows, lo, hi) IN
         IF Len(rows) < 2 THEN None
         ELSE LET lowRow  == MinLowRow(rows)
                  highRow == MaxHighRow(AfterLow(rows, lowRow.ts))
              IN  Some([symbol  |-> symbol,
                        pct     |-> SessionPct(lowRow.low, highRow.high),
                        low     |-> lowRow.low,
                        high    |-> highRow.high,
                        low_ts  |-> lowRow.ts,
                        high_ts |-> highRow.ts])

(***************************************************************************)
(* Evaluator specification: compute_session_performance applied to every   *)
(* ascending candle series over 5-minute slots around both ends of the     *)
(* session window.                                                         *)
(***************************************************************************)
CandleMs == 300000  \* one 5m candle, in milliseconds

\* slots (multiples of 5 minutes from the window start): one before the
\* window, its first two, and the ones around its end
EvalSlots == {-1, 0, 1, 287, 288, 289}

EvalPrices == {0, 10, 12}

EvalNows == {1 * SecPerDay + 21600 - KstHours * SecPerHour,
             1 * SecPerDay + 14400 - KstHours * SecPerHour}

\* the slots of a set in ascending order
RECURSIVE Ascending(_)
Ascending(slots) ==
    IF slots = {} THEN <<>>
    ELSE LET least == CHOOSE k \in slots : \A m \in slots : k <= m
         IN  <<least>> \o Ascending(slots \ {least})

\* the ascending series with one candle on each of the slots, timestamps
\* unique, the candle of slot k having high hl[k][1] and low hl[k][2]
SeriesOn(slots, origin, hl) ==
    [j \in 1..Cardinality(slots) |->
        [ts    |-> origin + Ascending(slots)[j] * CandleMs,
         high  |-> hl[Ascending(slots)[j]][1],
         low   |-> hl[Ascending(slots)[j]][2],
         close |-> hl[Ascending(slots)[j]][1]]]

SlotSets(slots) == {sl \in SUBSET slots : Cardinality(sl) <= MaxCandles}

InitEval ==
    /\ pc = "call"
    /\ now \in EvalNows
    /\ since_ms = to_ms(previous_kst_session_bounds(now).start)
    /\ until_ms = to_ms(previous_kst_session_bounds(now).end)
    /\ \/ ohlcv = [ok |-> FALSE, rows |-> <<>>]
       \/ \E sl \in SlotSets(EvalSlots) :
             \E hl \in [sl -> EvalPrices \X EvalPrices] :
                ohlcv = [ok |-> TRUE, rows |-> SeriesOn(sl, since_ms, hl)]
    /\ result = None
    /\ NoWindow /\ NoScan /\ NoMain /\ NoSend

Evaluate ==
    /\ pc = "call"
    /\ result' = compute_session_performance(ohlcv, 1, since_ms, until_ms)
    /\ pc' = "returned"
    /\ UNCHANGED <<now, win, base, boundaries, ohlcv, since_ms, until_ms,
                   scanVars, mainVars, sendVars>>

NextEval == Evaluate

SpecEval == InitEval /\ [][NextEval]_vars

\* C1: whenever compute_session_performance returns a result, high_ts >= low_ts
\* and both low_ts and high_ts lie inside [since_ms, until_ms].
HighNotBeforeLow ==
    (pc = "returned" /\ result # None) =>
        /\ result[1].high_ts >= result[1].low_ts
        /\ since_ms <= result[1].low_ts /\ result[1].low_ts <= until_ms
        /\ since_ms <= result[1].high_ts /\ result[1].high_ts <= until_ms

\* a result whose high is later than its low although a greater high came
\* before the low
HighNotBeforeLowWitness ==
    /\ pc = "returned" /\ result # None
    /\ result[1].high_ts > result[1].low_ts
    /\ \E k \in 1..Len(ohlcv.rows) :
          /\ ohlcv.rows[k].ts >= since_ms
          /\ ohlcv.rows[k].ts < result[1].low_ts
          /\ ohlcv.rows[k].high > result[1].high

(***************************************************************************)
(* 5) last_n_interval_deltas_30m: boundary prices and deltas               *)
(***************************************************************************)
\* while idx + 1 < len(ohlcv) and ohlcv[idx + 1][0] <= b_ms: idx += 1
\* (idx is 0-based as in the code; rows[idx + 1] here is ohlcv[idx] there)
RECURSIVE AdvanceCursor(_, _, _)
AdvanceCursor(rows, cur, b_ms) ==
    IF cur + 1 < Len(rows) /\ rows[cur + 2].ts <= b_ms
    THEN AdvanceCursor(rows, cur + 1, b_ms)
    ELSE cur

\* faulty variant: the candle under the cursor taken without comparing its
\* timestamp with the boundary
PriceAtNoTsCheck(rows, cur, b_ms) ==
    IF cur < Len(rows) /\ rows[cur + 1].close > 0
    THEN Some(rows[cur + 1].close)
    ELSE None

\* the price appended for a boundary once the cursor has advanced
PriceAt(rows, cur, b_ms) ==
    IF /\ cur < Len(rows)
       /\ rows[cur + 1].ts <= b_ms
       /\ rows[cur + 1].close # 0
       /\ rows[cur + 1].close > 0
    THEN Some(rows[cur + 1].close)
    ELSE None

\* one delta: (p_cur - p_prev) / p_prev * 100.0, or 0.0
Delta(p_prev, p_cur) ==
    IF p_prev # None /\ p_cur # None /\ p_prev[1] > 0
    THEN <<(p_cur[1] - p_prev[1]) * 100, p_prev[1]>>
    ELSE <<0, 1>>

\* deltas = [...] for i in range(1, len(prices))
DeltaList(ps) ==
    IF Len(ps) < 2 THEN <<>>
    ELSE [k \in 1..(Len(ps) - 1) |-> Delta(ps[k], ps[k + 1])]

\* if len(deltas) >= n: return deltas[-n:]; return deltas
LastN(ds, k) == IF Len(ds) >= k THEN Tail_k(ds, k) ELSE ds

(***************************************************************************)
(* Resampler specification: last_n_interval_deltas_30m on every ascending  *)
(* 5m series over slots around the first boundaries, one step per          *)
(* boundary of the price scan.                                             *)
(***************************************************************************)
TREND_COUNT == 4

\* values of n: none, fewer than the intervals, and the configured default
ScanNs == {0, 1, 2, TREND_COUNT}

ScanBase == 1 * SecPerDay + AnchorHour * SecPerHour - KstHours * SecPerHour

\* seconds after the base: no completed step, then 1, 2 and 3 steps
ScanNows == {ScanBase + 600, ScanBase + 1800, ScanBase + 3700, ScanBase + 5400}

ScanSlots == {0, 1, 6, 7, 12, 18}

ScanCloses == {0, 99, 100, 105}

InitScan ==
    /\ pc = "fetch"
    /\ base = ScanBase
    /\ now \in ScanNows
    /\ n \in ScanNs
    /\ \/ ohlcv = [ok |-> FALSE, rows |-> <<>>]
       \/ \E sl \in SlotSets(ScanSlots) :
             \E cl \in [sl -> ScanCloses] :
                ohlcv = [ok |-> TRUE,
                         rows |-> SeriesOn(sl, to_ms(ScanBase),
                                           [k \in sl |-> <<cl[k], cl[k]>>])]
    /\ win = [start |-> 0, end |-> 0] /\ boundaries = <<>>
    /\ since_ms = 0 /\ until_ms = 0 /\ result = None
    /\ idx = 0 /\ prices = <<>> /\ deltas = <<>>
    /\ NoMain /\ NoSend

\* the fetch failed, gave nothing, or no step is complete: return []
ScanReturnEmpty ==
    /\ pc = "fetch"
    /\ ~ohlcv.ok \/ ohlcv.rows = <<>> \/ last_step_index(base, now) < 1
    /\ deltas' = <<>>
    /\ pc' = "done"
    /\ UNCHANGED <<clockVars, evalVars, idx, prices, n, mainVars, sendVars>>

ScanStart ==
    /\ pc = "fetch"
    /\ ohlcv.ok /\ ohlcv.rows # <<>> /\ last_step_index(base, now) >= 1
    /\ boundaries' = Boundaries(base, now)
    /\ idx' = 0
    /\ prices' = <<>>
    /\ pc' = "scan"
    /\ UNCHANGED <<now, win, base, evalVars, deltas, n, mainVars, sendVars>>

\* one iteration of "for b in boundaries"
ScanBoundary ==
    /\ pc = "scan"
    /\ Len(prices) < Len(boundaries)
    /\ LET b_ms == to_ms(boundaries[Len(prices) + 1])
           cur  == AdvanceCursor(ohlcv.rows, idx, b_ms)
       IN  /\ idx' = cur
           /\ prices' = Append(prices, PriceAt(ohlcv.rows, cur, b_ms))
    /\ UNCHANGED <<pc, clockVars, evalVars, deltas, n, mainVars, sendVars>>

ScanDeltas ==
    /\ pc = "scan"
    /\ Len(prices) = Len(boundaries)
    /\ deltas' = LastN(DeltaList(prices), n)
    /\ pc' = "done"
    /\ UNCHANGED <<clockVars, evalVars, idx, prices, n, mainVars, sendVars>>

NextScan == ScanReturnEmpty \/ ScanStart \/ ScanBoundary \/ ScanDeltas

SpecScan == InitScan /\ [][NextScan]_vars

\* the reference definition of a boundary price: the close of the last candle
\* whose timestamp is <= the boundary, absent when there is none or when that
\* close is not positive
RefPrice(rows, b_ms) ==
    LET atOrBefore == {k \in 1..Len(rows) : rows[k].ts <= b_ms} IN
    IF atOrBefore = {} THEN None
    ELSE LET k == CHOOSE m \in atOrBefore : \A j \in atOrBefore : j <= m IN
         IF rows[k].close > 0 THEN Some(rows[k].close) ELSE None

\* C10: on an ascending candle series the forward-only cursor scan gives every
\* boundary the price of the reference definition (close of the last candle at
\* or before the boundary, absent when there is none or it is not positive).
CursorScanMatchesReference ==
    pc \in {"scan", "done"} =>
        \A k \in 1..Len(prices) :
            prices[k] = RefPrice(ohlcv.rows, to_ms(boundaries[k]))

\* a finished scan with an absent first price (no candle yet at the base), a
\* later present price, and a cursor that moved
CursorScanWitness ==
    /\ pc = "done"
    /\ Len(prices) >= 3
    /\ prices[1] = None
    /\ prices[3] # None
    /\ idx >= 1

\* C8: the function returns exactly the last min(n, k) entries of the full
\* delta series of the k+1 boundary prices, each entry being
\* (P_i - P_{i-1}) / P_{i-1} * 100 when both prices are present, else 0.
ReturnsLastMinNK ==
    (pc = "done" /\ Len(prices) >= 1) =>
        LET k    == Len(prices) - 1
            full == [j \in 1..k |->
                        IF prices[j] # None /\ prices[j + 1] # None
                        THEN <<(prices[j + 1][1] - prices[j][1]) * 100, prices[j][1]>>
                        ELSE <<0, 1>>]
            m    == Min(n, k)
        IN  deltas = [j \in 1..m |-> full[k - m + j]]

(***************************************************************************)
(* 6) Message format.                                                      *)
(* A text is a sequence of segments [k, v, len]: k the kind of segment     *)
(* ("hdr" header line, "nl" one newline, "rank" a rank line, "delta" a     *)
(* delta line), v what it shows, len its length in characters (Python's    *)
(* len of the str).  A symbol is <<id, length of its name>>.               *)
(***************************************************************************)
RECURSIVE TextLen(_)
TextLen(t) == IF t = <<>> THEN 0 ELSE t[1].len + TextLen(Tail(t))

NL == [k |-> "nl", v |-> <<>>, len |-> 1]

\* str.rstrip(): only newline segments are whitespace; a header, rank or delta
\* line never ends in whitespace
RECURSIVE rstrip(_)
rstrip(t) ==
    IF t # <<>> /\ Last(t).k = "nl" THEN rstrip(SubSeq(t, 1, Len(t) - 1)) ELSE t

\* "header in buf"
Contains(t, part) ==
    \E o \in 0..(Len(t) - Len(part)) : SubSeq(t, o + 1, o + Len(part)) = part

RECURSIVE Digits(_)
Digits(k) == IF k < 10 THEN 1 ELSE 1 + Digits(k \div 10)

Abs(k) == IF k < 0 THEN -k ELSE k

\* a fraction rounded to hundredths as f"{v:.2f}" does (ties to even)
Round2(q) ==
    LET f == (q[1] * 100) \div q[2]
        r == (q[1] * 100) % q[2]
    IN  IF 2 * r > q[2] THEN f + 1
        ELSE IF 2 * r = q[2] THEN f + (f % 2)
        ELSE f

\* comparisons of fractions with positive denominators
FracGeq(a, b) == a[1] * b[2] >= b[1] * a[2]

\* "📈 {day_label} 세션(05:00→04:59) 상승률 순위\n"
HeaderFixedLen == 25

format_block_header(label) ==
    LET line == [k |-> "hdr", v |-> <<label[1]>>, len |-> HeaderFixedLen + label[2]]
    IN  <<line, NL>>

\* flair, then medal or "{rank}.", then the fixed spaces and the "%"
format_rank_line(rk, symbol, pct) ==
    LET fire     == FracGeq(pct, <<10, 1>>)
        flairLen == IF fire THEN 1 ELSE 2
        pctLen   == Digits(Round2(pct) \div 100) + 3
        rankLen  == IF rk <= 3 THEN 1 + 3 ELSE Digits(rk) + 1 + 2
    IN  [k   |-> "rank",
         v   |-> <<rk, symbol[1], Round2(pct), IF fire THEN 1 ELSE 0>>,
         len |-> rankLen + symbol[2] + 1 + flairLen + 2 + pctLen + 1]

DELTA_EMOJI_THRESH == 2

\* _fmt_delta: <<hundredths shown, 1 when the sign shown is "-", marker>>,
\* marker 1 for the rocket, -1 for the collision, 0 for none
fmt_delta(v) ==
    <<Round2(v),
      IF v[1] < 0 THEN 1 ELSE 0,
      IF FracGeq(v, <<DELTA_EMOJI_THRESH, 1>>) THEN 1
      ELSE IF FracGeq(<<-DELTA_EMOJI_THRESH, 1>>, v) THEN -1 ELSE 0>>

FmtDeltaLen(part) ==
    1 + Digits(Abs(part[1]) \div 100) + 3 + 1 + (IF part[3] # 0 THEN 2 ELSE 0)

RECURSIVE SumLens(_)
SumLens(parts) ==
    IF parts = <<>> THEN 0 ELSE FmtDeltaLen(parts[1]) + SumLens(Tail(parts))

Placeholder == [k |-> "delta", v |-> <<>>, len |-> 7]

\* faulty variant: format_delta_line without its "if not deltas" guard
format_delta_line_unguarded(ds, first_run, hour) ==
    LET parts == [k \in 1..Len(ds) |-> fmt_delta(ds[k])] IN
    IF first_run
    THEN LET show == IF Len(parts) >= 3 THEN Tail_k(parts, 3) ELSE parts IN
         [k   |-> "delta",
          v   |-> <<1, hour, show>>,
          len |-> 6 + 2 + SumLens(show) + 3 + 3 * (Len(show) + 1)]
    ELSE LET show == Tail_k(parts, TREND_COUNT) IN
         [k   |-> "delta",
          v   |-> <<0, -1, show>>,
          len |-> 6 + SumLens(show) + 3 * Max(Len(show) - 1, 0)]

\* format_delta_line; v is <<style, hour or -1, the parts shown>>
format_delta_line(ds, first_run, hour) ==
    IF ds = <<>> THEN Placeholder
    ELSE LET parts == [k \in 1..Len(ds) |-> fmt_delta(ds[k])] IN
         IF first_run
         THEN LET show == IF Len(parts) >= 3 THEN Tail_k(parts, 3) ELSE parts IN
              [k   |-> "delta",
               v   |-> <<1, hour, show>>,
               len |-> 6 + 2 + SumLens(show) + 3 + 3 * (Len(show) + 1)]
         ELSE LET show == Tail_k(parts, TREND_COUNT) IN
              [k   |-> "delta",
               v   |-> <<0, -1, show>>,
               len |-> 6 + SumLens(show) + 3 * (Len(show) - 1)]

\* now_kst.strftime('%H')
KstHour(t) == (KstClock(t) % SecPerDay) \div SecPerHour

\* trend_map.get(symbol, [])
TrendOf(tm, symbol) == IF symbol \in DOMAIN tm THEN tm[symbol] ELSE <<>>

CHAR_CAP == 3500

\* send_telegram(text): the text reaches the sink whether or not the HTTP
\* call succeeds (a failure is only printed)
send_telegram(out, text) == Append(out, text)

\* faulty variant: the buffer reset without being sent
FlushDropsBuffer(out, b, lines) == out

\* flush(): the new value of the messages sent
Flush(out, b, lines) == IF lines > 0 THEN send_telegram(out, rstrip(b)) ELSE out

\* faulty variant: only the line cap is tested
MustFlushLinesOnly(b, chunk, lines, cap) == lines + 1 > cap

\* lines_in_msg + 1 > LINES_PER_MESSAGE or len(buf) + len(chunk) > 3500
MustFlush(b, chunk, lines, cap) ==
    lines + 1 > cap \/ TextLen(b) + TextLen(chunk) > CHAR_CAP

SendBegin ==
    /\ pc = "send"
    /\ header' = format_block_header(day_label)
    /\ buf' = format_block_header(day_label)
    /\ lines_in_msg' = 0
    /\ rank' = 1
    /\ pc' = "loop"
    /\ UNCHANGED <<clockVars, evalVars, scanVars, mainVars, trend_map,
                   first_run_style, day_label, ranked, sent, lines_cap>>

\* one iteration of "for item in ranked"
SendItem ==
    /\ pc = "loop"
    /\ rank <= Len(ranked)
    /\ LET item  == ranked[rank]
           line1 == format_rank_line(rank, item.symbol, item.pct)
           line2 == format_delta_line(TrendOf(trend_map, item.symbol),
                                      first_run_style, KstHour(now))
           entry == <<line1, NL, line2>>
           chunk == (IF lines_in_msg > 0 \/ Contains(buf, header)
                     THEN <<NL, NL>> ELSE <<>>) \o entry
       IN  IF MustFlush(buf, chunk, lines_in_msg, lines_cap)
           THEN /\ sent' = Flush(sent, buf, lines_in_msg)
                /\ buf' = header \o entry
                /\ lines_in_msg' = 1
           ELSE /\ sent' = sent
                /\ buf' = buf \o chunk
                /\ lines_in_msg' = lines_in_msg + 1
    /\ rank' = rank + 1
    /\ UNCHANGED <<pc, clockVars, evalVars, scanVars, mainVars, trend_map,
                   first_run_style, day_label, header, ranked, lines_cap>>

\* the final flush()
SendFinish ==
    /\ pc = "loop"
    /\ rank > Len(ranked)
    /\ sent' = Flush(sent, buf, lines_in_msg)
    /\ buf' = header
    /\ lines_in_msg' = 0
    /\ pc' = "done"
    /\ UNCHANGED <<clockVars, evalVars, scanVars, mainVars, trend_map,
                   first_run_style, day_label, header, ranked, rank, lines_cap>>

(***************************************************************************)
(* Chunker specification: send_ranked_messages on every ranked list of     *)
(* short, long and oversized entries, under each kind of line cap.         *)
(***************************************************************************)
LINES_PER_MESSAGE == 9999

\* lengths of symbol names: ordinary, two of which fill a message, and one
\* longer than a whole message
SendSymLens == {8, 1700, 3600}

SendDeltas == {<<>>, <<<<500, 100>>>>}

SendDayLens == {10, 1800}

SendLineCaps == {1, 2, LINES_PER_MESSAGE}

SendNow == 1 * SecPerDay + 25200 - KstHours * SecPerHour

InitSend ==
    /\ pc = "send"
    /\ now = SendNow
    /\ first_run_style \in BOOLEAN
    /\ lines_cap \in SendLineCaps
    /\ \E dl \in SendDayLens : day_label = <<1, dl>>
    /\ \E m \in 0..MaxRanked :
          \E lens \in [1..m -> SendSymLens] :
             \E ds \in [1..m -> SendDeltas] :
                /\ ranked = [k \in 1..m |->
                                [symbol |-> <<k, lens[k]>>, pct |-> <<20 - k, 1>>]]
                /\ trend_map = [sym \in {<<k, lens[k]>> : k \in 1..m} |-> ds[sym[1]]]
    /\ header = <<>> /\ buf = <<>> /\ lines_in_msg = 0 /\ rank = 0 /\ sent = <<>>
    /\ win = [start |-> 0, end |-> 0] /\ base = 0 /\ boundaries = <<>>
    /\ NoEval /\ NoScan /\ NoMain

NextSend == SendBegin \/ SendItem \/ SendFinish

SpecSend == InitSend /\ [][NextSend]_vars

\* the entry of the k-th ranked item: its rank line and its delta line
EntryLines(k) ==
    <<format_rank_line(k, ranked[k].symbol, ranked[k].pct),
      format_delta_line(TrendOf(trend_map, ranked[k].symbol),
                        first_run_style, KstHour(now))>>

IsLine(seg) == seg.k # "nl"

\* the lines of a sent text after its header
BodyLines(t) == SelectSeq(SubSeq(t, Len(header) + 1, Len(t)), IsLine)

RECURSIVE ConcatAll(_)
ConcatAll(ss) == IF ss = <<>> THEN <<>> ELSE ss[1] \o ConcatAll(Tail(ss))

\* C4 as claimed: no text passed to the sink is longer than the 3500
\* character cap, whatever the lengths of the header and of the entries.
NoSentTextOverCap ==
    \A m \in 1..Len(sent) : TextLen(sent[m]) <= CHAR_CAP

\* header, line 1, newline, line 2 of every ranked entry fit the cap
EveryEntryFits ==
    \A k \in 1..Len(ranked) :
        TextLen(format_block_header(day_label)) + EntryLines(k)[1].len + 1
            + EntryLines(k)[2].len <= CHAR_CAP

\* C4 amended: when the header followed by any single entry is within the
\* cap, no text passed to the sink is longer than the cap.
NoSentTextOverCapWhenEntriesFit ==
    EveryEntryFits => NoSentTextOverCap

\* a finished run, all entries fitting, split by the character cap alone
\* into a text of two entries and a later text
OverCapWitness ==
    /\ pc = "done"
    /\ EveryEntryFits
    /\ lines_cap = LINES_PER_MESSAGE
    /\ Len(sent) = 2
    /\ Len(BodyLines(sent[1])) = 4
    /\ TextLen(sent[1]) > CHAR_CAP - 100

\* C5: the texts sent partition the ranked list in order: each starts with
\* the header and holds whole entries (a rank line, then its delta line), and
\* the entries of the texts, in send order, are exactly the ranked entries in
\* ranking order, each once.
SentPartitionsRanked ==
    pc = "done" =>
        /\ \A m \in 1..Len(sent) :
              /\ IsPrefix(header, sent[m])
              /\ Len(BodyLines(sent[m])) >= 2
              /\ Len(BodyLines(sent[m])) % 2 = 0
        /\ ConcatAll([m \in 1..Len(sent) |-> BodyLines(sent[m])])
              = ConcatAll([k \in 1..Len(ranked) |-> EntryLines(k)])

SentPartitionWitness ==
    /\ pc = "done"
    /\ Len(ranked) >= 3
    /\ Len(sent) = 2
    /\ Len(BodyLines(sent[1])) = 4

(***************************************************************************)
(* 7) main                                                                 *)
(***************************************************************************)
\* the whole of last_n_interval_deltas_30m
RECURSIVE ScanPrices(_, _, _, _)
ScanPrices(rows, bs, k, cur) ==
    IF k > Len(bs) THEN <<>>
    ELSE LET c == AdvanceCursor(rows, cur, to_ms(bs[k])) IN
         <<PriceAt(rows, c, to_ms(bs[k]))>> \o ScanPrices(rows, bs, k + 1, c)

last_n_interval_deltas_30m(fetch, b, t, k) ==
    IF ~fetch.ok THEN <<>>
    ELSE IF fetch.rows = <<>> THEN <<>>
    ELSE IF last_step_index(b, t) < 1 THEN <<>>
    ELSE LastN(DeltaList(ScanPrices(fetch.rows, Boundaries(b, t), 1, 0)), k)

FracGt(a, b) == a[1] * b[2] > b[1] * a[2]

\* faulty variant: an element placed before the elements equal to it
InsertDescTiesFirst(srt, x) ==
    LET p == Cardinality({j \in 1..Len(srt) : FracGt(srt[j].pct, x.pct)})
    IN  SubSeq(srt, 1, p) \o <<x>> \o SubSeq(srt, p + 1, Len(srt))

\* results.sort(key=lambda x: x["pct"], reverse=True): a stable sort, equal
\* keys keep their order; here by insertion after every element not smaller
InsertDesc(srt, x) ==
    LET p == Cardinality({j \in 1..Len(srt) : FracGeq(srt[j].pct, x.pct)})
    IN  SubSeq(srt, 1, p) \o <<x>> \o SubSeq(srt, p + 1, Len(srt))

RECURSIVE SortDesc(_)
SortDesc(rs) ==
    IF rs = <<>> THEN <<>>
    ELSE InsertDesc(SortDesc(SubSeq(rs, 1, Len(rs) - 1)), Last(rs))

TOP_N == 999999

\* results[:TOP_N]
TopN(rs) == SubSeq(rs, 1, Min(Len(rs), TOP_N))

\* now_kst.minute % 30 != 0
FirstRunStyle(t) == ((KstClock(t) \div 60) % 60) % StepMin # 0

\* start_kst.strftime("%Y-%m-%d"): the KST day and the 10 characters
DayLabel(t) == <<KstClock(t) \div SecPerDay, 10>>

\* what fetch_ohlcv returns for a feed whose candles are given by 5m slots
\* counted from the since argument
Fetched(feed, origin_ms) ==
    [ok   |-> feed.ok,
     rows |-> [k \in 1..Len(feed.rows) |->
                  [ts    |-> origin_ms + feed.rows[k].ts * CandleMs,
                   high  |-> feed.rows[k].high,
                   low   |-> feed.rows[k].low,
                   close |-> feed.rows[k].close]]]

(***************************************************************************)
(* Run specification: main from the resolved watch-list to the texts sent, *)
(* every symbol with each kind of session feed and trend feed.  The run    *)
(* starts at valid_syms: loading and resolving the watch-list, the market  *)
(* load and the rate-limit sleeps are not modelled; the symbols of a       *)
(* watch-list are distinct.                                                *)
(***************************************************************************)
Candle(slot, h, l, c) == [ts |-> slot, high |-> h, low |-> l, close |-> c]

\* a failed fetch; low then high (20%); high then low (0%); another 20%;
\* two candles of which one is after the window
SessionFeeds ==
    {[ok |-> FALSE, rows |-> <<>>],
     [ok |-> TRUE,  rows |-> <<Candle(0, 10, 10, 10), Candle(2, 12, 11, 12)>>],
     [ok |-> TRUE,  rows |-> <<Candle(0, 12, 11, 12), Candle(2, 10, 10, 10)>>],
     [ok |-> TRUE,  rows |-> <<Candle(0, 5, 5, 5), Candle(1, 6, 6, 6)>>],
     [ok |-> TRUE,  rows |-> <<Candle(3, 11, 10, 11), Candle(300, 30, 1, 30)>>]}

TrendFeeds ==
    {[ok |-> FALSE, rows |-> <<>>],
     [ok |-> TRUE,  rows |-> <<Candle(0, 100, 100, 100), Candle(6, 105, 105, 105),
                               Candle(12, 99, 99, 99)>>]}

\* KST 05:10 (no step complete), 05:30, 07:10 and 04:00 (before the anchor)
MainNows == {1 * SecPerDay + s - KstHours * SecPerHour :
                 s \in {18600, 19800, 25800, 14400}}

InitMain ==
    /\ pc = "main"
    /\ now \in MainNows
    /\ lines_cap = LINES_PER_MESSAGE
    /\ \E m \in 0..MaxSyms :
          /\ valid_syms = [k \in 1..m |-> <<k, 8 + (k % 2)>>]
          /\ feeds \in [1..m -> SessionFeeds]
          /\ tfeeds \in [1..m -> TrendFeeds]
    /\ results = <<>> /\ i = 0
    /\ trend_map = <<>> /\ first_run_style = FALSE
    /\ day_label = <<0, 0>> /\ header = <<>> /\ ranked = <<>> /\ buf = <<>>
    /\ lines_in_msg = 0 /\ rank = 0 /\ sent = <<>>
    /\ NoWindow /\ NoScan
    /\ ohlcv = [ok |-> TRUE, rows |-> <<>>] /\ since_ms = 0 /\ until_ms = 0
    /\ result = None

MainStart ==
    /\ pc = "main"
    /\ win' = previous_kst_session_bounds(now)
    /\ since_ms' = to_ms(previous_kst_session_bounds(now).start)
    /\ until_ms' = to_ms(previous_kst_session_bounds(now).end)
    /\ base' = latest_5am_kst_at_or_before(now)
    /\ first_run_style' = FirstRunStyle(now)
    /\ results' = <<>>
    /\ i' = 1
    /\ pc' = "rank"
    /\ UNCHANGED <<now, boundaries, ohlcv, result, scanVars, valid_syms, feeds,
                   tfeeds, trend_map, day_label, header, ranked, buf,
                   lines_in_msg, rank, sent, lines_cap>>

\* one iteration of "for s in valid_syms" of the ranking loop
RankSymbol ==
    /\ pc = "rank"
    /\ i <= Len(valid_syms)
    /\ LET fetch == Fetched(feeds[i], since_ms)
           r     == compute_session_performance(fetch, valid_syms[i], since_ms, until_ms)
       IN  IF FetchErrorPropagates(fetch)
           THEN /\ pc' = "aborted"
                /\ UNCHANGED <<results, i>>
           ELSE /\ results' = IF r # None THEN Append(results, r[1]) ELSE results
                /\ i' = i + 1
                /\ pc' = pc
    /\ UNCHANGED <<clockVars, evalVars, scanVars, valid_syms, feeds, tfeeds,
                   sendVars>>

SortResults ==
    /\ pc = "rank"
    /\ i > Len(valid_syms)
    /\ results' = SortDesc(results)
    /\ i' = 1
    /\ pc' = "trend"
    /\ UNCHANGED <<clockVars, evalVars, scanVars, valid_syms, feeds, tfeeds,
                   sendVars>>

\* one iteration of "for s in valid_syms" of the trend loop
TrendSymbol ==
    /\ pc = "trend"
    /\ i <= Len(valid_syms)
    /\ LET ds == last_n_interval_deltas_30m(Fetched(tfeeds[i], to_ms(base)),
                                            base, now, TREND_COUNT)
       IN  trend_map' = [sym \in DOMAIN trend_map \cup {valid_syms[i]} |->
                            IF sym = valid_syms[i] THEN ds ELSE trend_map[sym]]
    /\ i' = i + 1
    /\ UNCHANGED <<pc, clockVars, evalVars, scanVars, valid_syms, feeds, tfeeds,
                   results, first_run_style, day_label, header, ranked, buf,
                   lines_in_msg, rank, sent, lines_cap>>

\* the call send_ranked_messages(day_label, results[:TOP_N], ...)
MainSend ==
    /\ pc = "trend"
    /\ i > Len(valid_syms)
    /\ day_label' = DayLabel(win.start)
    /\ ranked' = TopN(results)
    /\ pc' = "send"
    /\ UNCHANGED <<clockVars, evalVars, scanVars, mainVars, trend_map,
                   first_run_style, header, buf, lines_in_msg, rank, sent,
                   lines_cap>>

NextMain ==
    \/ MainStart \/ RankSymbol \/ SortResults \/ TrendSymbol \/ MainSend
    \/ SendBegin \/ SendItem \/ SendFinish

SpecMain == InitMain /\ [][NextMain]_vars

\* the rank and delta lines of the texts sent, in send order
SentLines == ConcatAll([m \in 1..Len(sent) |-> BodyLines(sent[m])])

\* the symbols (by id) shown on the rank lines sent
SentSymbols ==
    {SentLines[j].v[2] : j \in {m \in 1..Len(SentLines) : SentLines[m].k = "rank"}}

FracEq(a, b) == a[1] * b[2] = b[1] * a[2]

\* C2: the list handed to the chunker is in non-increasing pct order, results
\* of equal pct keep their watch-list order, and the i-th entry of the list is
\* shown with rank i.
RankedByPctStable ==
    pc \in {"send", "loop", "done"} =>
        /\ \A a \in 1..Len(ranked) : \A b \in 1..Len(ranked) :
              a < b =>
                 /\ FracGeq(ranked[a].pct, ranked[b].pct)
                 /\ FracEq(ranked[a].pct, ranked[b].pct)
                       => ranked[a].symbol[1] < ranked[b].symbol[1]
        /\ pc = "done" =>
              /\ Len(SentLines) = 2 * Len(ranked)
              /\ \A k \in 1..Len(ranked) :
                    /\ SentLines[2 * k - 1].k = "rank"
                    /\ SentLines[2 * k - 1].v[1] = k
                    /\ SentLines[2 * k - 1].v[2] = ranked[k].symbol[1]

\* a finished run ranking the second and third symbol, tied at 20%, in
\* watch-list order before the first symbol
RankedWitness ==
    /\ pc = "done"
    /\ Len(ranked) = 3
    /\ ranked[1].symbol[1] = 2 /\ ranked[2].symbol[1] = 3 /\ ranked[3].symbol[1] = 1
    /\ FracEq(ranked[1].pct, ranked[2].pct)
    /\ FracGt(ranked[2].pct, ranked[3].pct)

\* the session fetch of the k-th symbol failed, or gave fewer than 2 candles
\* inside the window
NoSessionData(k) ==
    \/ ~feeds[k].ok
    \/ Cardinality({j \in 1..Len(feeds[k].rows) :
                       /\ since_ms <= since_ms + feeds[k].rows[j].ts * CandleMs
                       /\ since_ms + feeds[k].rows[j].ts * CandleMs <= until_ms}) < 2

RankedSymbols == {ranked[k].symbol[1] : k \in 1..Len(ranked)}

\* C6: a symbol whose session fetch fails or gives fewer than 2 candles in
\* the window is absent from the ranking and never aborts the run; every other
\* symbol is evaluated and is in the ranking that is sent.
FailedSymbolsDropped ==
    /\ pc # "aborted"
    /\ pc \in {"send", "loop", "done"} =>
          \A k \in 1..Len(valid_syms) : NoSessionData(k) <=> k \notin RankedSymbols
    /\ pc = "done" => SentSymbols = RankedSymbols

\* a finished run in which a failed fetch and a short series came before a
\* symbol that is ranked and sent
FailedSymbolsWitness ==
    /\ pc = "done"
    /\ Len(valid_syms) = 3
    /\ ~feeds[1].ok
    /\ feeds[2].ok /\ NoSessionData(2)
    /\ SentSymbols = {3}

\* C9 as claimed: with zero completed steps the symbols are absent from the
\* output that is sent.
ZeroStepSymbolsAbsent ==
    (pc = "done" /\ last_step_index(base, now) < 1) => SentSymbols = {}

\* C9 amended: with zero completed steps a symbol's delta series is empty,
\* which never fails the run and does not remove the symbol: every ranked
\* symbol is sent, its delta line being the placeholder.
ZeroStepSymbolsShownWithPlaceholder ==
    /\ pc # "aborted"
    /\ (pc = "done" /\ last_step_index(base, now) < 1) =>
          /\ \A k \in 1..Len(valid_syms) : trend_map[valid_syms[k]] = <<>>
          /\ SentSymbols = RankedSymbols
          /\ Len(SentLines) = 2 * Len(ranked)
          /\ \A k \in 1..Len(ranked) : SentLines[2 * k] = Placeholder

\* a finished run at 05:10 KST with two ranked symbols whose trend fetch
\* returned candles
ZeroStepWitness ==
    /\ pc = "done"
    /\ last_step_index(base, now) < 1
    /\ Len(ranked) >= 2
    /\ \A k \in 1..Len(valid_syms) : tfeeds[k].ok
    /\ Len(sent) = 1

====
